---- MODULE Spec2Model ----
(***************************************************************************)
(* Fibonacci-gRPC: the Fibonacci service (in-process cache variant and     *)
(* Redis variant with RetryGRPC), its fire-and-forget stats reporter and   *)
(* the Stats service (RecordNo / GetStats).                                *)
(***************************************************************************)
EXTENDS Integers, Sequences, FiniteSets, TLC

(***************************************************************************)
(* Go's int is 64 bits wide; the model checker's integers are 32 bits.  A  *)
(* Go int is kept as sign and magnitude, the magnitude in three limbs of   *)
(* base 10^9 (most significant first).                                     *)
(***************************************************************************)
Base == 10 ^ 9

Mag(l2, l1, l0) == <<l2, l1, l0>>

MagZero == Mag(0, 0, 0)

\* 2^64, 2^63 - 1 and 2^63
Two64 == Mag(18, 446744073, 709551616)
MaxMag == Mag(9, 223372036, 854775807)
MinMag == Mag(9, 223372036, 854775808)

MagLess(x, y) ==
    \/ x[1] < y[1]
    \/ x[1] = y[1] /\ x[2] < y[2]
    \/ x[1] = y[1] /\ x[2] = y[2] /\ x[3] < y[3]

MagAdd(x, y) ==
    LET lo  == x[3] + y[3]
        mid == x[2] + y[2] + (lo \div Base)
        hi  == x[1] + y[1] + (mid \div Base)
    IN  Mag(hi, mid % Base, lo % Base)

\* x - y for y <= x
MagSub(x, y) ==
    LET lo  == x[3] - y[3]
        b1  == IF lo < 0 THEN 1 ELSE 0
        mid == x[2] - y[2] - b1
        b2  == IF mid < 0 THEN 1 ELSE 0
        hi  == x[1] - y[1] - b2
    IN  Mag(hi, mid + b2 * Base, lo + b1 * Base)

IntVal(sgn, m) == [neg |-> sgn /\ m # MagZero, mag |-> m]

\* a small non-negative integer as a Go int
Small(k) == IntVal(FALSE, Mag(0, k \div Base, k % Base))

\* the mathematical sum of two Go ints
ExactAdd(x, y) ==
    IF x.neg = y.neg
    THEN IntVal(x.neg, MagAdd(x.mag, y.mag))
    ELSE IF MagLess(x.mag, y.mag)
         THEN IntVal(y.neg, MagSub(y.mag, x.mag))
         ELSE IntVal(x.neg, MagSub(x.mag, y.mag))

InInt64(v) == IF v.neg THEN ~MagLess(MinMag, v.mag) ELSE ~MagLess(MaxMag, v.mag)

\* two's complement wrap-around of a value in (-2^64, 2^64)
Wrap64(v) == IF InInt64(v) THEN v ELSE IntVal(~v.neg, MagSub(Two64, v.mag))

\* Go's a + b on int
Add64(x, y) == Wrap64(ExactAdd(x, y))

(***************************************************************************)
(* The Fibonacci sequence itself, in unbounded arithmetic: the reference   *)
(* the service's results are compared with.                                *)
(***************************************************************************)
RECURSIVE MathFibSeq(_, _)
MathFibSeq(s, k) ==
    IF k = 0 THEN s
    ELSE MathFibSeq(Append(s, MagAdd(s[Len(s)], s[Len(s) - 1])), k - 1)

MathFibTable == MathFibSeq(<<MagZero, Mag(0, 0, 1)>>, 94)

\* the k-th Fibonacci number, 0 <= k <= 95
MathFib(k) == IntVal(FALSE, MathFibTable[k + 1])

(***************************************************************************)
(* strconv / fmt: a Go int written in decimal and read back.  A string is  *)
(* a sequence of one-character strings.                                    *)
(***************************************************************************)
DigitChars == <<"0", "1", "2", "3", "4", "5", "6", "7", "8", "9">>

DigitOf(ch) == (CHOOSE d \in 1..10 : DigitChars[d] = ch) - 1

IsDigit(ch) == \E d \in 1..10 : DigitChars[d] = ch

RECURSIVE SmallDigits(_)
SmallDigits(k) ==
    IF k < 10 THEN <<DigitChars[k + 1]>>
    ELSE Append(SmallDigits(k \div 10), DigitChars[(k % 10) + 1])

RECURSIVE PadLeft(_, _)
PadLeft(s, w) == IF Len(s) >= w THEN s ELSE PadLeft(<<"0">> \o s, w)

MagDigits(m) ==
    IF m[1] # 0
    THEN SmallDigits(m[1]) \o PadLeft(SmallDigits(m[2]), 9) \o PadLeft(SmallDigits(m[3]), 9)
    ELSE IF m[2] # 0
         THEN SmallDigits(m[2]) \o PadLeft(SmallDigits(m[3]), 9)
         ELSE SmallDigits(m[3])

\* strconv.FormatInt(v, 10), which fmt's %d and go-redis use for an int
FormatInt(v) == IF v.neg THEN <<"-">> \o MagDigits(v.mag) ELSE MagDigits(v.mag)

\* the magnitude m * 10 + d; a first limb above 18 already exceeds 2^64
MagTimes10Plus(m, d) ==
    LET lo  == (m[3] % 10 ^ 8) * 10 + d
        mid == (m[2] % 10 ^ 8) * 10 + (m[3] \div 10 ^ 8)
        hi  == m[1] * 10 + (m[2] \div 10 ^ 8)
    IN  Mag(IF hi > 99 THEN 99 ELSE hi, mid, lo)

RECURSIVE DigitsMag(_, _)
DigitsMag(s, acc) ==
    IF s = <<>> THEN acc
    ELSE DigitsMag(Tail(s), MagTimes10Plus(acc, DigitOf(Head(s))))

\* strconv.ParseInt(s, 10, 64): [ok, val]
ParseInt(s) ==
    LET signed == s # <<>> /\ Head(s) \in {"-", "+"}
        body   == IF signed THEN Tail(s) ELSE s
        neg    == signed /\ Head(s) = "-"
        v      == IntVal(neg, DigitsMag(body, MagZero))
    IN  IF body = <<>> \/ \E j \in 1..Len(body) : ~IsDigit(body[j])
        THEN [ok |-> FALSE, val |-> Small(0)]
        ELSE IF InInt64(v) THEN [ok |-> TRUE, val |-> v]
             ELSE [ok |-> FALSE, val |-> Small(0)]

\* fmt.Sprintf("fib:%d", n) for the request's n, a small integer
CacheKey(n) ==
    <<"f", "i", "b", ":">> \o (IF n < 0 THEN <<"-">> \o SmallDigits(0 - n) ELSE SmallDigits(n))

(***************************************************************************)
(* Bounds of the model                                                     *)
(***************************************************************************)
\* concurrent GetFib handlers of the Fibonacci service
NumProcs == 2
\* GetFib calls in one run
MaxCalls == 2
\* concurrent handlers of the Stats service
NumHandlers == 2
\* RecordNo requests in one run of the Stats service
MaxRecords == 3
\* concurrent FibHandler requests of the gateway
NumGateways == 2

Procs == 1..NumProcs
CallIds == 1..MaxCalls
Handlers == 1..NumHandlers
Gateways == 1..NumGateways

EmptyMap == [k \in {} |-> 0]

\* GetFib's limit on n
MaxN == 92

\* the largest int32, the width of FibonacciRequest.N
MaxInt32 == 2147483647

NoVal == [neg |-> FALSE, mag |-> <<>>]
\* ovf: an addition of the call left the int64 range
NoPath == [rlock |-> 0, lock |-> 0, iters |-> 0, writes |-> 0, gets |-> 0, again |-> FALSE,
           ovf |-> FALSE]
NoResp == [n |-> 0, code |-> "none", x |-> NoVal, path |-> NoPath]

VARIABLES
    variant,    \* which Fibonacci service runs: "mem" (sync.RWMutex + map) or "redis"
    fibCache,   \* mem: the map fibCache
    mu,         \* mem: the sync.RWMutex, [w: the writer or 0, r: the set of readers]
    rdb,        \* redis: the store, key -> string
    pc,         \* each GetFib handler's position
    fn,         \* its n
    fi,         \* Fib's loop index i
    fab,        \* redis: Fib's <<a, b>>
    fcached,    \* Fib's [ok, val] of the cache lookup
    fres,       \* Fib's result
    path,       \* what the call in progress has done so far (locks, iterations, writes)
    resp,       \* each call's response, once given
    calls,      \* GetFib calls so far
    cid,        \* the number of the handler's call
    done,       \* n -> the value the first completed GetFib(n) returned
    rep,        \* the reporter goroutine of each call
    msg,        \* the RecordNo requests of each call's attempts
    stats,      \* the Stats service's Stats struct
    smu,        \* stats.mu: the handler holding it, or 0
    hpc,        \* each Stats handler's position
    hreq,       \* the RecordNo request it serves
    htmp,       \* the value it read for the ++ or += in progress
    hkeys,      \* GetStats's keys
    hres,       \* GetStats's res, the entries built so far
    hsnap,      \* the StatsResponse the handler returned last
    hist,       \* the RecordNo requests served, in the order their handlers returned
    started,    \* n -> RecordNo handlers entered so far
    gw          \* each FibHandler of the gateway: its request, what it sent and what it wrote

fibVars == <<variant, fibCache, mu, rdb, pc, fn, fi, fab, fcached, fres, path, resp, calls, cid, done>>
aggVars == <<smu, hpc, hreq, htmp, hkeys, hres, hsnap, hist, started, gw>>
telVars == <<rep, msg, stats, smu, hpc, hreq, htmp, hkeys, hres, hsnap, hist, started, gw>>
backendVars == <<rep, msg, stats, smu, hpc, hreq, htmp, hkeys, hres, hsnap, hist, started>>

\* a map read: the zero value for a missing key
CacheGet(c, k) == IF k \in DOMAIN c THEN c[k] ELSE Small(0)

CachePut(c, k, v) == [j \in DOMAIN c \cup {k} |-> IF j = k THEN v ELSE c[j]]

\* GetFib's validation
TooLargeOffByOne(n) == n > MaxN + 1
TooLarge(n) == n > MaxN

\* the condition of Fib's loop, for i := 2; i <= n; i++
LoopCondExclusive(i, n) == i < n
LoopCond(i, n) == i <= n

\* mem: the ok of cached, ok := fibCache[n]
LookupHitNever(c, n) == FALSE
LookupHit(c, n) == n \in DOMAIN c

\* sync.RWMutex
CanRLock(m) == m.w = 0
CanLock(m) == m.w = 0 /\ m.r = {}

\* mu.Unlock()
MuUnlockMissing(m) == m
MuUnlock(m) == [m EXCEPT !.w = 0]

\* the first index of Fib's loop, for i := 2
LoopStartAtN(n) == n
LoopStart(n) == 2

(***************************************************************************)
(* The reporter goroutine GetFib starts, and RetryGRPC's parameters        *)
(***************************************************************************)
\* RetryGRPC(3, 100*time.Millisecond, ...): maxRetries, and baseDelay in milliseconds
MaxRetries == 3
BaseDelayMs == 100

\* st: the goroutine's position; i, delay, err: RetryGRPC's variables; attempts: calls of f
\* so far; slept: the waits so far; allTransient: every attempt that has ended so far
\* failed with a transient error; permAt: the attempt that failed with a permanent
\* error, 0 while none has; obs: the goroutines started for the call
NoRep == [st |-> "none", n |-> 0, dur |-> 0, i |-> 0, attempts |-> 0, delay |-> 0,
          slept |-> <<>>, err |-> "none", allTransient |-> TRUE, permAt |-> 0, obs |-> 0]

\* the RecordNo requests of one call: those sent and not handled, those handled, and
\* whether the request of the attempt in progress has been handled
NoMsg == [pending |-> 0, applied |-> 0, cur |-> FALSE]

\* go func(n, dur): the goroutine exists and has not run yet
NewRep(n, d) == [NoRep EXCEPT !.st = "ready", !.n = n, !.dur = d, !.delay = BaseDelayMs]

(***************************************************************************)
(* GetFib and Fib, both variants                                           *)
(***************************************************************************)
\* GetFib is entered with request n: the validation, and the error return
GetFibCall(p, n) ==
    /\ pc[p] = "idle"
    /\ calls < MaxCalls
    /\ calls' = calls + 1
    /\ IF TooLarge(n)
       THEN /\ resp' = [resp EXCEPT ![calls + 1] =
                  [n |-> n, code |-> "InvalidArgument", x |-> NoVal,
                   path |-> [NoPath EXCEPT !.again = n \in DOMAIN done]]]
            /\ UNCHANGED <<pc, fn, cid, path>>
       ELSE /\ pc' = [pc EXCEPT ![p] = "fib"]
            /\ fn' = [fn EXCEPT ![p] = n]
            /\ cid' = [cid EXCEPT ![p] = calls + 1]
            /\ path' = [path EXCEPT ![p] = [NoPath EXCEPT !.again = n \in DOMAIN done]]
            /\ UNCHANGED resp
    /\ UNCHANGED <<variant, fibCache, mu, rdb, fi, fab, fcached, fres, done>>
    /\ UNCHANGED telVars

\* Fib's base cases
FibEntry(p) ==
    /\ pc[p] = "fib"
    /\ IF fn[p] = 0 \/ fn[p] = 1
       THEN /\ fres' = [fres EXCEPT ![p] = Small(fn[p])]
            /\ pc' = [pc EXCEPT ![p] = "ret"]
       ELSE /\ pc' = [pc EXCEPT ![p] = IF variant = "mem" THEN "rlock" ELSE "get"]
            /\ UNCHANGED fres
    /\ UNCHANGED <<variant, fibCache, mu, rdb, fn, fi, fab, fcached, path, resp, calls, cid, done>>
    /\ UNCHANGED telVars

\* mem: mu.RLock()
FibRLock(p) ==
    /\ pc[p] = "rlock"
    /\ CanRLock(mu)
    /\ mu' = [mu EXCEPT !.r = @ \cup {p}]
    /\ path' = [path EXCEPT ![p].rlock = @ + 1]
    /\ pc' = [pc EXCEPT ![p] = "read"]
    /\ UNCHANGED <<variant, fibCache, rdb, fn, fi, fab, fcached, fres, resp, calls, cid, done>>
    /\ UNCHANGED telVars

\* mem: cached, ok := fibCache[n]; mu.RUnlock(); return cached if ok
FibRead(p) ==
    /\ pc[p] = "read"
    /\ LET ok == LookupHit(fibCache, fn[p])
           v  == CacheGet(fibCache, fn[p])
       IN  /\ fcached' = [fcached EXCEPT ![p] = [ok |-> ok, val |-> v]]
           /\ fres' = [fres EXCEPT ![p] = IF ok THEN v ELSE @]
           /\ pc' = [pc EXCEPT ![p] = IF ok THEN "ret" ELSE "lock"]
    /\ mu' = [mu EXCEPT !.r = @ \ {p}]
    /\ UNCHANGED <<variant, fibCache, rdb, fn, fi, fab, path, resp, calls, cid, done>>
    /\ UNCHANGED telVars

\* mem: mu.Lock(); i := 2
FibLock(p) ==
    /\ pc[p] = "lock"
    /\ CanLock(mu)
    /\ mu' = [mu EXCEPT !.w = p]
    /\ fi' = [fi EXCEPT ![p] = LoopStart(fn[p])]
    /\ path' = [path EXCEPT ![p].lock = @ + 1]
    /\ pc' = [pc EXCEPT ![p] = "loop"]
    /\ UNCHANGED <<variant, fibCache, rdb, fn, fab, fcached, fres, resp, calls, cid, done>>
    /\ UNCHANGED telVars

\* mem: one iteration of the loop, or after it result := fibCache[n]; mu.Unlock()
FibLoop(p) ==
    /\ pc[p] = "loop"
    /\ IF LoopCond(fi[p], fn[p])
       THEN /\ IF fi[p] \notin DOMAIN fibCache
               THEN /\ fibCache' = CachePut(fibCache, fi[p],
                            Add64(CacheGet(fibCache, fi[p] - 1), CacheGet(fibCache, fi[p] - 2)))
                    /\ path' = [path EXCEPT ![p].iters = @ + 1, ![p].writes = @ + 1,
                                            ![p].ovf = @ \/ ~InInt64(ExactAdd(
                                                CacheGet(fibCache, fi[p] - 1),
                                                CacheGet(fibCache, fi[p] - 2)))]
               ELSE /\ path' = [path EXCEPT ![p].iters = @ + 1]
                    /\ UNCHANGED fibCache
            /\ fi' = [fi EXCEPT ![p] = @ + 1]
            /\ UNCHANGED <<mu, fres, pc>>
       ELSE /\ fres' = [fres EXCEPT ![p] = CacheGet(fibCache, fn[p])]
            /\ mu' = MuUnlock(mu)
            /\ pc' = [pc EXCEPT ![p] = "ret"]
            /\ UNCHANGED <<fibCache, fi, path>>
    /\ UNCHANGED <<variant, rdb, fn, fab, fcached, resp, calls, cid, done>>
    /\ UNCHANGED telVars

\* redis: err == nil and convErr == nil, the cached value is returned
CacheHitIgnoringConvErr(out, parsed) == out = "val"
CacheHit(out, parsed) == out = "val" /\ parsed.ok

\* redis: rdb.Get answers a value, a miss or an error; a miss starts a, b := 0, 1; i := 2
\* rdb.Get answers a value ("val"), redis.Nil ("nil") or another error ("err")
FibGet(p, out) ==
    /\ pc[p] = "get"
    /\ out = "val" => CacheKey(fn[p]) \in DOMAIN rdb
    /\ out = "nil" => CacheKey(fn[p]) \notin DOMAIN rdb
    /\ LET parsed == IF out = "val" THEN ParseInt(rdb[CacheKey(fn[p])])
                     ELSE [ok |-> FALSE, val |-> Small(0)]
           hit    == CacheHit(out, parsed)
       IN  /\ fcached' = [fcached EXCEPT ![p] = parsed]
           /\ fres' = [fres EXCEPT ![p] = IF hit THEN parsed.val ELSE @]
           /\ pc' = [pc EXCEPT ![p] = IF hit THEN "ret" ELSE "compute"]
           /\ fab' = [fab EXCEPT ![p] = IF hit THEN @ ELSE <<Small(0), Small(1)>>]
           /\ fi' = [fi EXCEPT ![p] = IF hit THEN @ ELSE LoopStart(fn[p])]
    /\ path' = [path EXCEPT ![p].gets = @ + 1]
    /\ UNCHANGED <<variant, fibCache, mu, rdb, fn, resp, calls, cid, done>>
    /\ UNCHANGED telVars

\* redis: one iteration of a, b = b, a+b, or the end of the loop
FibCompute(p) ==
    /\ pc[p] = "compute"
    /\ IF LoopCond(fi[p], fn[p])
       THEN /\ fab' = [fab EXCEPT ![p] = <<@[2], Add64(@[1], @[2])>>]
            /\ fi' = [fi EXCEPT ![p] = @ + 1]
            /\ path' = [path EXCEPT ![p].iters = @ + 1,
                                    ![p].ovf = @ \/ ~InInt64(ExactAdd(fab[p][1], fab[p][2]))]
            /\ UNCHANGED pc
       ELSE /\ pc' = [pc EXCEPT ![p] = "set"]
            /\ UNCHANGED <<fab, fi, path>>
    /\ UNCHANGED <<variant, fibCache, mu, rdb, fn, fcached, fres, resp, calls, cid, done>>
    /\ UNCHANGED telVars

\* redis: rdb.Set(ctx, cacheKey, b, 0) succeeds or fails; return b
FibSet(p, ok) ==
    /\ pc[p] = "set"
    /\ IF ok
       THEN /\ rdb' = CachePut(rdb, CacheKey(fn[p]), FormatInt(fab[p][2]))
            /\ path' = [path EXCEPT ![p].writes = @ + 1]
       ELSE UNCHANGED <<rdb, path>>
    /\ fres' = [fres EXCEPT ![p] = fab[p][2]]
    /\ pc' = [pc EXCEPT ![p] = "ret"]
    /\ UNCHANGED <<variant, fibCache, mu, fn, fi, fab, fcached, resp, calls, cid, done>>
    /\ UNCHANGED telVars

\* GetFib after Fib returned: the duration d is measured and the reporter goroutine started
Spawn(p, d) ==
    /\ pc[p] = "ret"
    /\ rep' = [rep EXCEPT ![cid[p]] = [NewRep(fn[p], d) EXCEPT !.obs = rep[cid[p]].obs + 1]]
    /\ pc' = [pc EXCEPT ![p] = "respond"]
    /\ UNCHANGED <<variant, fibCache, mu, rdb, fn, fi, fab, fcached, fres, path, resp, calls, cid, done>>
    /\ UNCHANGED <<msg, stats>>
    /\ UNCHANGED aggVars

\* return &pb.FibonacciResponse{X: res}, nil
CanRespondAfterReport(p) == pc[p] = "respond" /\ rep[cid[p]].st = "done"
CanRespondBeforeSpawn(p) == pc[p] \in {"ret", "respond"}
CanRespond(p) == pc[p] = "respond"

Respond(p) ==
    /\ CanRespond(p)
    /\ resp' = [resp EXCEPT ![cid[p]] =
           [n |-> fn[p], code |-> "OK", x |-> fres[p], path |-> path[p]]]
    /\ done' = IF fn[p] \in DOMAIN done THEN done ELSE CachePut(done, fn[p], fres[p])
    /\ pc' = [pc EXCEPT ![p] = "idle"]
    /\ fn' = [fn EXCEPT ![p] = 0]
    /\ fi' = [fi EXCEPT ![p] = 0]
    /\ fab' = [fab EXCEPT ![p] = <<Small(0), Small(0)>>]
    /\ fcached' = [fcached EXCEPT ![p] = [ok |-> FALSE, val |-> Small(0)]]
    /\ fres' = [fres EXCEPT ![p] = NoVal]
    /\ path' = [path EXCEPT ![p] = NoPath]
    /\ cid' = [cid EXCEPT ![p] = 0]
    /\ UNCHANGED <<variant, fibCache, mu, rdb, calls>>
    /\ UNCHANGED telVars

(***************************************************************************)
(* The Stats service's RecordNo, as one step (it runs under stats.mu)      *)
(***************************************************************************)
CountGet(m, k) == IF k \in DOMAIN m THEN m[k] ELSE 0

\* s.stats.RequestCount[n]++
IncRequestCount(s, n) == [s EXCEPT !.RequestCount = CachePut(@, n, CountGet(@, n) + 1)]

\* s.stats.TotalRequests++
IncTotalRequests(s) == [s EXCEPT !.TotalRequests = @ + 1]

\* s.stats.TotalTime[n] += dur
AddTotalTime(s, n, d) == [s EXCEPT !.TotalTime = CachePut(@, n, CountGet(@, n) + d)]

RecordNoEffect(s, n, d) == AddTotalTime(IncTotalRequests(IncRequestCount(s, n)), n, d)

StoreRequestCount(s, n, v) == [s EXCEPT !.RequestCount = CachePut(@, n, v)]
\* a write that sets every key's duration instead of n's
StoreTotalTimeEveryKey(s, n, v) == [s EXCEPT !.TotalTime = [k \in DOMAIN @ \cup {n} |-> v]]
StoreTotalTime(s, n, v) == [s EXCEPT !.TotalTime = CachePut(@, n, v)]

(***************************************************************************)
(* The Stats service's handlers step by step: RecordNo's three updates are *)
(* each a read and a write, GetStats collects the keys, sorts them, builds *)
(* one entry per key and returns; stats.mu is held from the first line to  *)
(* the return.                                                             *)
(***************************************************************************)
NoReq == [n |-> 0, d |-> 0]
\* a StatsResponse; before: the RecordNo handlers that had returned when GetStats was
\* entered; after: the RecordNo handlers per n that had been entered when it returned;
\* applied: the RecordNo handlers that had returned when it returned; raw: the keys in
\* the order the range over the map gave them
NoSnap == [given |-> FALSE, total |-> 0, entries |-> <<>>, before |-> 0, after |-> EmptyMap,
           applied |-> 0, raw |-> <<>>]

\* s.stats.mu.Lock() in RecordNo and in GetStats: the mutex is free
RecordNoNoLock(m) == TRUE
RecordNoCanLock(m) == m = 0
GetStatsNoLock(m) == TRUE
GetStatsCanLock(m) == m = 0

\* time.Duration.Milliseconds()
Milliseconds(ns) == ns \div 1000000

\* sort.Ints
SortIntsMissing(s) == s
RECURSIVE InsertSorted(_, _)
InsertSorted(s, k) ==
    IF s = <<>> THEN <<k>>
    ELSE IF k <= Head(s) THEN <<k>> \o s
         ELSE <<Head(s)>> \o InsertSorted(Tail(s), k)

RECURSIVE SortInts(_)
SortInts(s) == IF s = <<>> THEN <<>> ELSE InsertSorted(SortInts(Tail(s)), Head(s))

\* the orders a range over the map's keys can produce
KeyOrders(m) ==
    {s \in [1..Cardinality(DOMAIN m) -> DOMAIN m] : \A a, b \in DOMAIN s : a # b => s[a] # s[b]}

\* a RecordNo request arrives and its handler starts
RecordNoEnter(h, n, d) ==
    /\ hpc[h] = "idle"
    /\ Len(hist) + Cardinality({g \in Handlers : hreq[g] # NoReq}) < MaxRecords
    /\ started' = CachePut(started, n, CountGet(started, n) + 1)
    /\ hreq' = [hreq EXCEPT ![h] = [n |-> n, d |-> d]]
    /\ hpc' = [hpc EXCEPT ![h] = "rec_lock"]
    /\ hsnap' = [hsnap EXCEPT ![h] = NoSnap]
    /\ UNCHANGED <<stats, smu, htmp, hkeys, hres, hist>>
    /\ UNCHANGED fibVars
    /\ UNCHANGED <<rep, msg, gw>>

\* s.stats.mu.Lock()
RecordNoLock(h) ==
    /\ hpc[h] = "rec_lock"
    /\ RecordNoCanLock(smu)
    /\ smu' = h
    /\ hpc' = [hpc EXCEPT ![h] = "rc_load"]
    /\ UNCHANGED <<stats, hreq, htmp, hkeys, hres, hsnap, hist, started>>
    /\ UNCHANGED fibVars
    /\ UNCHANGED <<rep, msg, gw>>

\* the read of one of RecordNo's three updates
RecordNoLoad(h) ==
    /\ hpc[h] \in {"rc_load", "tr_load", "tt_load"}
    /\ htmp' = [htmp EXCEPT ![h] =
                 IF hpc[h] = "rc_load" THEN CountGet(stats.RequestCount, hreq[h].n)
                 ELSE IF hpc[h] = "tr_load" THEN stats.TotalRequests
                 ELSE CountGet(stats.TotalTime, hreq[h].n)]
    /\ hpc' = [hpc EXCEPT ![h] =
                 IF hpc[h] = "rc_load" THEN "rc_store"
                 ELSE IF hpc[h] = "tr_load" THEN "tr_store" ELSE "tt_store"]
    /\ UNCHANGED <<stats, smu, hreq, hkeys, hres, hsnap, hist, started>>
    /\ UNCHANGED fibVars
    /\ UNCHANGED <<rep, msg, gw>>

\* its write
RecordNoStore(h) ==
    /\ hpc[h] \in {"rc_store", "tr_store", "tt_store"}
    /\ stats' = IF hpc[h] = "rc_store" THEN StoreRequestCount(stats, hreq[h].n, htmp[h] + 1)
                ELSE IF hpc[h] = "tr_store" THEN [stats EXCEPT !.TotalRequests = htmp[h] + 1]
                ELSE StoreTotalTime(stats, hreq[h].n, htmp[h] + hreq[h].d)
    /\ hpc' = [hpc EXCEPT ![h] =
                 IF hpc[h] = "rc_store" THEN "tr_load"
                 ELSE IF hpc[h] = "tr_store" THEN "tt_load" ELSE "rec_ret"]
    /\ htmp' = [htmp EXCEPT ![h] = 0]
    /\ UNCHANGED <<smu, hreq, hkeys, hres, hsnap, hist, started>>
    /\ UNCHANGED fibVars
    /\ UNCHANGED <<rep, msg, gw>>

\* return &pb.RecordResponse{Success: true}, nil, and the deferred Unlock
RecordNoReturn(h) ==
    /\ hpc[h] = "rec_ret"
    /\ smu' = IF smu = h THEN 0 ELSE smu
    /\ hist' = Append(hist, hreq[h])
    /\ hreq' = [hreq EXCEPT ![h] = NoReq]
    /\ hpc' = [hpc EXCEPT ![h] = "idle"]
    /\ UNCHANGED <<stats, htmp, hkeys, hres, hsnap, started>>
    /\ UNCHANGED fibVars
    /\ UNCHANGED <<rep, msg, gw>>

\* a GetStats request arrives and its handler starts
GetStatsEnter(h) ==
    /\ hpc[h] = "idle"
    /\ hsnap' = [hsnap EXCEPT ![h] = [NoSnap EXCEPT !.before = Len(hist)]]
    /\ hpc' = [hpc EXCEPT ![h] = "gs_lock"]
    /\ UNCHANGED <<stats, smu, hreq, htmp, hkeys, hres, hist, started>>
    /\ UNCHANGED fibVars
    /\ UNCHANGED <<rep, msg, gw>>

\* s.stats.mu.Lock(), and the range over RequestCount's keys in the order the map gives
GetStatsLock(h, order) ==
    /\ hpc[h] = "gs_lock"
    /\ GetStatsCanLock(smu)
    /\ order \in KeyOrders(stats.RequestCount)
    /\ smu' = h
    /\ hkeys' = [hkeys EXCEPT ![h] = order]
    /\ hres' = [hres EXCEPT ![h] = <<>>]
    /\ hpc' = [hpc EXCEPT ![h] = "sort"]
    /\ hsnap' = [hsnap EXCEPT ![h].raw = order]
    /\ UNCHANGED <<stats, hreq, htmp, hist, started>>
    /\ UNCHANGED fibVars
    /\ UNCHANGED <<rep, msg, gw>>

\* sort.Ints(keys)
GetStatsSort(h) ==
    /\ hpc[h] = "sort"
    /\ hkeys' = [hkeys EXCEPT ![h] = SortInts(@)]
    /\ hpc' = [hpc EXCEPT ![h] = "build"]
    /\ UNCHANGED <<stats, smu, hreq, htmp, hres, hsnap, hist, started>>
    /\ UNCHANGED fibVars
    /\ UNCHANGED <<rep, msg, gw>>

\* one entry of the response: n, count and the average as ms / count
StatEntry(s, n) ==
    [n |-> n, count |-> CountGet(s.RequestCount, n),
     ms |-> Milliseconds(CountGet(s.TotalTime, n))]

\* one iteration of the loop over keys
GetStatsBuild(h) ==
    /\ hpc[h] = "build"
    /\ Len(hres[h]) < Len(hkeys[h])
    /\ hres' = [hres EXCEPT ![h] = Append(@, StatEntry(stats, hkeys[h][Len(@) + 1]))]
    /\ UNCHANGED <<stats, smu, hpc, hreq, htmp, hkeys, hsnap, hist, started>>
    /\ UNCHANGED fibVars
    /\ UNCHANGED <<rep, msg, gw>>

\* the response with TotalRequests, and the deferred Unlock
GetStatsReturn(h) ==
    /\ hpc[h] = "build"
    /\ Len(hres[h]) = Len(hkeys[h])
    /\ hsnap' = [hsnap EXCEPT ![h] = [@ EXCEPT !.given = TRUE, !.total = stats.TotalRequests,
                                                !.entries = hres[h], !.after = started,
                                                !.applied = Len(hist)]]
    /\ smu' = IF smu = h THEN 0 ELSE smu
    /\ hkeys' = [hkeys EXCEPT ![h] = <<>>]
    /\ hres' = [hres EXCEPT ![h] = <<>>]
    /\ hpc' = [hpc EXCEPT ![h] = "idle"]
    /\ UNCHANGED <<stats, hreq, htmp, hist, started>>
    /\ UNCHANGED fibVars
    /\ UNCHANGED <<rep, msg, gw>>

(***************************************************************************)
(* The reporter: one RecordNo call (mem) or RetryGRPC around it (redis).   *)
(* An attempt sends its request; the Stats service may handle a request    *)
(* that was sent whatever the caller sees afterwards; the caller sees OK   *)
(* only once its request was handled, and otherwise a gRPC status or an    *)
(* error that is no gRPC status.                                           *)
(***************************************************************************)
Outcomes == {"OK", "Unavailable", "DeadlineExceeded", "PermissionDenied", "NotStatus"}

\* status.FromError(err) ok, and the code one of the two retried ones
RetryableAnyStatus(out) == out # "NotStatus"
Retryable(out) == out # "NotStatus" /\ (out = "Unavailable" \/ out = "DeadlineExceeded")

\* delay *= 2
NextDelayConstant(d) == d
NextDelay(d) == d * 2

\* RetryGRPC's loop condition
LoopContinuesOnceMore(i) == i <= MaxRetries + 1
LoopContinuesExclusive(i) == i < MaxRetries
LoopContinues(i) == i <= MaxRetries

\* f() is called: statsClient.RecordNo sends the request
AttemptStart(c) ==
    /\ rep[c].st = "ready"
    /\ rep' = [rep EXCEPT ![c].st = "calling", ![c].attempts = @ + 1]
    /\ msg' = [msg EXCEPT ![c].pending = @ + 1, ![c].cur = FALSE]
    /\ UNCHANGED fibVars
    /\ UNCHANGED stats
    /\ UNCHANGED aggVars

\* the Stats service handles a request of call c: that of the attempt in progress
\* (latest) or that of an earlier attempt, whose caller has stopped waiting
ServerRecordNo(c, latest) ==
    /\ msg[c].pending > 0
    /\ IF latest
       THEN rep[c].st = "calling" /\ ~msg[c].cur
       ELSE msg[c].pending > (IF rep[c].st = "calling" /\ ~msg[c].cur THEN 1 ELSE 0)
    /\ msg' = [msg EXCEPT ![c].pending = @ - 1, ![c].applied = @ + 1,
                          ![c].cur = @ \/ latest]
    /\ stats' = RecordNoEffect(stats, rep[c].n, rep[c].dur)
    /\ UNCHANGED fibVars
    /\ UNCHANGED rep
    /\ UNCHANGED aggVars

\* if err == nil { return nil }
ReturnsNilNever(out) == FALSE
ReturnsNil(out) == out = "OK"

\* f() returns: nil, or an error; what the reporter does next
AttemptEnd(c, out) ==
    /\ rep[c].st = "calling"
    /\ out = "OK" => msg[c].cur
    /\ LET r == [rep[c] EXCEPT !.err = out,
                               !.allTransient = @ /\ out \in {"Unavailable", "DeadlineExceeded"},
                               !.permAt = IF @ = 0 /\ out \in {"PermissionDenied", "NotStatus"}
                                          THEN rep[c].attempts ELSE @]
       IN  rep' = [rep EXCEPT ![c] =
                IF variant = "mem" \/ ReturnsNil(out) \/ (out # "OK" /\ ~Retryable(out))
                THEN [r EXCEPT !.st = "done"]
                ELSE [r EXCEPT !.st = "sleeping"]]
    /\ UNCHANGED fibVars
    /\ UNCHANGED <<msg, stats>>
    /\ UNCHANGED aggVars

\* time.Sleep(delay) is over: delay *= 2; i++; the loop goes on or RetryGRPC returns err
SleepDone(c) ==
    /\ rep[c].st = "sleeping"
    /\ rep' = [rep EXCEPT ![c].slept = Append(@, rep[c].delay),
                          ![c].delay = NextDelay(@),
                          ![c].i = @ + 1,
                          ![c].st = IF LoopContinues(rep[c].i + 1) THEN "ready" ELSE "done"]
    /\ UNCHANGED fibVars
    /\ UNCHANGED <<msg, stats>>
    /\ UNCHANGED aggVars

(***************************************************************************)
(* The gateway's FibHandler: it reads the query parameter n, converts it   *)
(* with strconv.Atoi, rejects what does not convert and what is negative,  *)
(* calls GetFib with int32(n) and writes the response or the error.        *)
(***************************************************************************)
\* strconv.Atoi on a 64-bit int: [ok, val]
Atoi(s) == ParseInt(s)

\* the low 32 bits of a decimal numeral as <<high 16 bits, low 16 bits>>
RECURSIVE Low32(_, _, _)
Low32(s, hi, lo) ==
    IF s = <<>> THEN <<hi, lo>>
    ELSE LET l == lo * 10 + DigitOf(Head(s))
         IN  Low32(Tail(s), (hi * 10 + l \div 65536) % 65536, l % 65536)

\* int32(n): the low 32 bits of n in two's complement, read as a signed number
Int32Of(v) ==
    LET u  == Low32(MagDigits(v.mag), 0, 0)
        w  == IF ~v.neg THEN u
              ELSE IF u[2] = 0 THEN <<(65536 - u[1]) % 65536, 0>>
                   ELSE <<65535 - u[1], 65536 - u[2]>>
    IN  IF w[1] >= 32768 THEN (w[1] - 65536) * 65536 + w[2] ELSE w[1] * 65536 + w[2]

\* if n < 0
GwNegativeNever(v) == FALSE
GwNegative(v) == v.neg

\* what the Fibonacci service answers to GetFib(N): InvalidArgument above 92, else the
\* value of Fib(N), which for a negative N is the map's zero value (mem) or b = 1 (redis)
GetFibReply(N) ==
    IF TooLarge(N) THEN [code |-> "InvalidArgument", x |-> NoVal]
    ELSE [code |-> "OK",
          x |-> IF N >= 0 THEN MathFib(N) ELSE IF variant = "mem" THEN Small(0) ELSE Small(1)]

\* the two shapes of a body: {"error": ...} and the FibonacciResponse
ErrorBody(e) == [kind |-> "error", error |-> e, x |-> NoVal]
ValueBody(x) == [kind |-> "value", error |-> "", x |-> x]

\* encoder.Encode(v) writes one JSON document to the response
Encode(bodies, b) == Append(bodies, b)

NoGw == [pc |-> "idle", nStr |-> <<>>, sent |-> <<>>, bodies |-> <<>>]

\* GET /fib?n=q arrives: nStr := r.URL.Query().Get("n")
GwRequest(g, q) ==
    /\ gw[g].pc \in {"idle", "done"}
    /\ gw' = [gw EXCEPT ![g] = [NoGw EXCEPT !.pc = "atoi", !.nStr = q]]
    /\ UNCHANGED fibVars
    /\ UNCHANGED backendVars

\* strconv.Atoi, the two checks, and the GetFib request being sent
GwParse(g) ==
    /\ gw[g].pc = "atoi"
    /\ LET r == Atoi(gw[g].nStr)
       IN  gw' = [gw EXCEPT ![g] =
                IF ~r.ok
                THEN [@ EXCEPT !.bodies = Encode(@, ErrorBody("invalid integer")), !.pc = "done"]
                ELSE IF GwNegative(r.val)
                     THEN [@ EXCEPT !.bodies = Encode(@, ErrorBody("n must be non-negative")),
                                    !.pc = "done"]
                     ELSE [@ EXCEPT !.sent = Append(@, Int32Of(r.val)), !.pc = "rpc"]]
    /\ UNCHANGED fibVars
    /\ UNCHANGED backendVars

\* client.GetFib returns: the service's answer, or the call failed on the way
GwReply(g, out) ==
    /\ gw[g].pc = "rpc"
    /\ LET r == IF out = "served" THEN GetFibReply(gw[g].sent[1]) ELSE [code |-> out, x |-> NoVal]
       IN  gw' = [gw EXCEPT ![g] =
                [@ EXCEPT !.bodies = Encode(@, IF r.code # "OK" THEN ErrorBody(r.code)
                                                ELSE ValueBody(r.x)),
                          !.pc = "done"]]
    /\ UNCHANGED fibVars
    /\ UNCHANGED backendVars

(***************************************************************************)
(* Initial state and the specifications                                    *)
(***************************************************************************)
\* durations RecordNo is sent, in nanoseconds, and the n it is sent
Durations == {400000, 1500000}
StatNs == {2, 3}

\* every kind of request: negative, valid, too large, and the ends of int32
AllInputs == (0 - 3 .. MaxN + 3) \cup {MaxInt32, 0 - MaxInt32}

\* the requests of the telemetry specification: a valid n and one too large
TelInputs == {2, MaxN + 1}

Init ==
    /\ variant \in {"mem", "redis"}
    /\ fibCache = (0 :> Small(0)) @@ (1 :> Small(1))
    /\ mu = [w |-> 0, r |-> {}]
    /\ rdb = EmptyMap
    /\ pc = [p \in Procs |-> "idle"]
    /\ fn = [p \in Procs |-> 0]
    /\ fi = [p \in Procs |-> 0]
    /\ fab = [p \in Procs |-> <<Small(0), Small(0)>>]
    /\ fcached = [p \in Procs |-> [ok |-> FALSE, val |-> Small(0)]]
    /\ fres = [p \in Procs |-> NoVal]
    /\ path = [p \in Procs |-> NoPath]
    /\ resp = [c \in CallIds |-> NoResp]
    /\ calls = 0
    /\ cid = [p \in Procs |-> 0]
    /\ done = EmptyMap
    /\ rep = [c \in CallIds |-> NoRep]
    /\ msg = [c \in CallIds |-> NoMsg]
    /\ stats = [RequestCount |-> EmptyMap, TotalRequests |-> 0, TotalTime |-> EmptyMap]
    /\ smu = 0
    /\ hpc = [h \in Handlers |-> "idle"]
    /\ hreq = [h \in Handlers |-> NoReq]
    /\ htmp = [h \in Handlers |-> 0]
    /\ hkeys = [h \in Handlers |-> <<>>]
    /\ hres = [h \in Handlers |-> <<>>]
    /\ hsnap = [h \in Handlers |-> NoSnap]
    /\ hist = <<>>
    /\ started = EmptyMap
    /\ gw = [g \in Gateways |-> NoGw]

vars == <<variant, fibCache, mu, rdb, pc, fn, fi, fab, fcached, fres, path, resp, calls, cid, done,
          rep, msg, stats, smu, hpc, hreq, htmp, hkeys, hres, hsnap, hist, started, gw>>

\* one handler serving GetFib calls one after the other, over every kind of request
NextCompute ==
    \/ \E n \in AllInputs : GetFibCall(1, n)
    \/ FibEntry(1)
    \/ FibRLock(1)
    \/ FibRead(1)
    \/ FibLock(1)
    \/ FibLoop(1)
    \/ \E out \in {"val", "nil", "err"} : FibGet(1, out)
    \/ FibCompute(1)
    \/ \E ok \in BOOLEAN : FibSet(1, ok)
    \/ Spawn(1, 400000)
    \/ Respond(1)

SpecCompute == Init /\ [][NextCompute]_vars

\* one handler, the reporters of its calls and the Stats service
Next ==
    \/ \E n \in TelInputs : GetFibCall(1, n)
    \/ FibEntry(1)
    \/ FibRLock(1)
    \/ FibRead(1)
    \/ FibLock(1)
    \/ FibLoop(1)
    \/ \E out \in {"val", "nil", "err"} : FibGet(1, out)
    \/ FibCompute(1)
    \/ \E ok \in BOOLEAN : FibSet(1, ok)
    \/ Spawn(1, 400000)
    \/ Respond(1)
    \/ \E c \in CallIds : AttemptStart(c)
    \/ \E c \in CallIds, latest \in BOOLEAN : ServerRecordNo(c, latest)
    \/ \E c \in CallIds, out \in Outcomes : AttemptEnd(c, out)
    \/ \E c \in CallIds : SleepDone(c)

Spec == Init /\ [][Next]_vars

\* the Stats service alone, under concurrent RecordNo and GetStats requests
NextStats ==
    \/ \E h \in Handlers, n \in StatNs, d \in Durations : RecordNoEnter(h, n, d)
    \/ \E h \in Handlers : RecordNoLock(h)
    \/ \E h \in Handlers : RecordNoLoad(h)
    \/ \E h \in Handlers : RecordNoStore(h)
    \/ \E h \in Handlers : RecordNoReturn(h)
    \/ \E h \in Handlers : GetStatsEnter(h)
    \/ \E h \in Handlers : \E order \in KeyOrders(stats.RequestCount) : GetStatsLock(h, order)
    \/ \E h \in Handlers : GetStatsSort(h)
    \/ \E h \in Handlers : GetStatsBuild(h)
    \/ \E h \in Handlers : GetStatsReturn(h)

InitStats == Init /\ variant = "mem"

SpecStats == InitStats /\ [][NextStats]_vars

(***************************************************************************)
(* The claims                                                              *)
(***************************************************************************)
Answered(c) == resp[c].code # "none"

\* the handler's own step, whichever it is
HandlerStep(p) ==
    \/ FibEntry(p) \/ FibRLock(p) \/ FibRead(p) \/ FibLock(p) \/ FibLoop(p)
    \/ \E out \in {"val", "nil", "err"} : FibGet(p, out)
    \/ FibCompute(p)
    \/ \E ok \in BOOLEAN : FibSet(p, ok)
    \/ Spawn(p, 400000)
    \/ Respond(p)

\* C1: every GetFib(n) with 0 <= n <= 92 that is answered is answered OK with the n-th
\* Fibonacci number (Fib(0)=0, Fib(1)=1, Fib(10)=55, Fib(92)=7540113804746346429),
\* whatever calls came before and whatever they left in the cache
C1_FibValue ==
    /\ MathFib(0) = Small(0) /\ MathFib(1) = Small(1) /\ MathFib(10) = Small(55)
    /\ MathFib(92) = IntVal(FALSE, Mag(7, 540113804, 746346429))
    /\ \A c \in CallIds :
         Answered(c) /\ resp[c].n \in 0..92 =>
             resp[c].code = "OK" /\ resp[c].x = MathFib(resp[c].n)

\* a second call, for 92, answered after a first call filled part of the cache
C1_Witness ==
    /\ Answered(1) /\ resp[1].n \in 2..91
    /\ Answered(2) /\ resp[2].n = 92 /\ resp[2].x = IntVal(FALSE, Mag(7, 540113804, 746346429))

\* C2: every GetFib(n) with n > 92 is answered InvalidArgument with no value, and the call
\* has touched neither cache: no lock, no lookup, no iteration, no write, and no entry
\* with a key above 92 exists
C2_TooLargeRejected ==
    /\ \A c \in CallIds :
         Answered(c) /\ resp[c].n > 92 =>
             /\ resp[c].code = "InvalidArgument"
             /\ resp[c].x = NoVal
             /\ resp[c].path = [NoPath EXCEPT !.again = resp[c].path.again]
    /\ \A k \in DOMAIN fibCache : k <= 92
    /\ \A k \in (93..95) \cup {MaxInt32} : CacheKey(k) \notin DOMAIN rdb

\* a call for 93 rejected after an earlier call has filled the cache
C2_Witness ==
    /\ Answered(1) /\ resp[1].code = "OK" /\ resp[1].n = 92
    /\ Answered(2) /\ resp[2].n = 93 /\ resp[2].code = "InvalidArgument"

\* C3: every GetFib(n) with n < 0 is answered InvalidArgument, with no value and with no
\* write to the cache
C3_NegativeRejected ==
    \A c \in CallIds :
        Answered(c) /\ resp[c].n < 0 =>
            /\ resp[c].code = "InvalidArgument"
            /\ resp[c].x = NoVal
            /\ resp[c].path.writes = 0

ReporterStep(c) ==
    \/ AttemptStart(c)
    \/ \E out \in Outcomes : AttemptEnd(c, out)
    \/ SleepDone(c)

NonDecreasing(s) == \A a, b \in DOMAIN s : a <= b => s[a] <= s[b]

C5_OneAttemptInTotal ==
    \A c \in CallIds : rep[c].permAt # 0 => rep[c].attempts = 1

\* C5: an attempt that fails with a permanent error (no gRPC status, or a status that is
\* neither Unavailable nor DeadlineExceeded) is the reporter's last: the reporter has
\* returned, it has made no attempt after that one and waited only between attempts, so
\* a permanent error on the first attempt leaves exactly 1 attempt and no wait
C5_PermanentStops ==
    \A c \in CallIds :
        rep[c].permAt # 0 =>
            /\ rep[c].st = "done"
            /\ rep[c].attempts = rep[c].permAt
            /\ Len(rep[c].slept) = rep[c].permAt - 1
            /\ rep[c].err \in {"PermissionDenied", "NotStatus"}
            /\ ~ENABLED ReporterStep(c)

\* PermissionDenied on the first attempt of a retrying reporter
C5_Witness ==
    /\ variant = "redis"
    /\ \E c \in CallIds :
         /\ rep[c].permAt = 1 /\ rep[c].err = "PermissionDenied"
         /\ rep[c].st = "done" /\ rep[c].attempts = 1 /\ rep[c].slept = <<>>

\* C8: a GetFib handler that has started always has its next step enabled, whatever the
\* state of the reporters and of the Stats service; only mu, which the reporters never
\* touch, can make it wait
C8_GetFibNeverWaits ==
    \A p \in Procs :
        pc[p] # "idle" =>
            IF pc[p] = "rlock" THEN (ENABLED HandlerStep(p)) <=> CanRLock(mu)
            ELSE IF pc[p] = "lock" THEN (ENABLED HandlerStep(p)) <=> CanLock(mu)
            ELSE ENABLED HandlerStep(p)

\* GetFib has answered while its reporter is in a backoff wait, and again while the
\* reporter's attempt is still in progress
C8_Witness ==
    /\ \E c \in CallIds : resp[c].code = "OK" /\ rep[c].st = "sleeping"
    /\ \E c \in CallIds : resp[c].code = "OK" /\ rep[c].st = "calling"

\* C9: the Stats service applies the RecordNo of one GetFib call at most once
C9_AtMostOnce == \A c \in CallIds : msg[c].applied <= 1

CountIn(h, j, k) == Cardinality({q \in 1..j : h[q].n = k})

RECURSIVE SumIn(_, _, _)
SumIn(h, j, k) ==
    IF j = 0 THEN 0
    ELSE SumIn(h, j - 1, k) + (IF h[j].n = k THEN h[j].d ELSE 0)

RECURSIVE SumCounts(_)
SumCounts(es) == IF es = <<>> THEN 0 ELSE es[1].count + SumCounts(Tail(es))

RECURSIVE SumMap(_)
SumMap(m) ==
    IF DOMAIN m = {} THEN 0
    ELSE LET k == CHOOSE q \in DOMAIN m : TRUE
         IN m[k] + SumMap([q \in DOMAIN m \ {k} |-> m[q]])

\* request_count for k in a response: 0 if k has no entry
SnapCount(es, k) == SumCounts(SelectSeq(es, LAMBDA e : e.n = k))

\* C6: a snapshot reports for every n at least the RecordNo calls for n that had returned
\* when GetStats was called and at most those that had been called when it returned, and
\* likewise for total_requests; so with k calls for n all returned and none in progress
\* it reports exactly k, and total_requests is the number of calls that returned.  While
\* no RecordNo is in progress the counters themselves are exactly those numbers.
C6_NoLostUpdate ==
    /\ \A h \in Handlers :
         hsnap[h].given =>
            /\ \A k \in StatNs :
                 /\ CountIn(hist, hsnap[h].before, k) <= SnapCount(hsnap[h].entries, k)
                 /\ SnapCount(hsnap[h].entries, k) <= CountGet(hsnap[h].after, k)
            /\ hsnap[h].before <= hsnap[h].total
            /\ hsnap[h].total <= SumMap(hsnap[h].after)
    /\ (\A h \in Handlers : hreq[h] = NoReq) =>
            /\ stats.TotalRequests = Len(hist)
            /\ \A k \in StatNs :
                 /\ CountGet(stats.RequestCount, k) = CountIn(hist, Len(hist), k)
                 /\ CountGet(stats.TotalTime, k) = SumIn(hist, Len(hist), k)

\* three calls, two of them for the same n, all returned before the snapshot was asked
\* for: it reports 2 for that n and 3 in total
C6_Witness ==
    \E h \in Handlers :
        /\ hsnap[h].given /\ hsnap[h].before = 3 /\ hsnap[h].total = 3
        /\ Len(hsnap[h].entries) = 2
        /\ \E k \in StatNs : SnapCount(hsnap[h].entries, k) = 2 /\ CountIn(hist, 3, k) = 2

\* C7: every response of GetStats is the state after some prefix of the RecordNo calls
\* in the order they returned: total_requests is the length of the prefix and the sum of
\* the entries' counts, there is one entry for each n recorded in the prefix, in
\* ascending order, and its count and milliseconds are those of the prefix's calls for n
C7_SnapshotConsistent ==
    \A h \in Handlers :
        hsnap[h].given =>
            /\ hsnap[h].total = SumCounts(hsnap[h].entries)
            /\ \A a, b \in DOMAIN hsnap[h].entries :
                 a < b => hsnap[h].entries[a].n < hsnap[h].entries[b].n
            /\ \E j \in 0..Len(hist) :
                 /\ hsnap[h].total = j
                 /\ \A q \in DOMAIN hsnap[h].entries :
                      /\ hsnap[h].entries[q].count = CountIn(hist, j, hsnap[h].entries[q].n)
                      /\ hsnap[h].entries[q].count > 0
                      /\ hsnap[h].entries[q].ms =
                             Milliseconds(SumIn(hist, j, hsnap[h].entries[q].n))
                 /\ \A k \in StatNs :
                      CountIn(hist, j, k) > 0 =>
                          \E q \in DOMAIN hsnap[h].entries : hsnap[h].entries[q].n = k

\* a response given while a RecordNo call that GetStats did not see is still in progress
C7_Witness ==
    \E h \in Handlers :
        /\ hsnap[h].given /\ hsnap[h].total = 2 /\ Len(hsnap[h].entries) = 2
        /\ SumMap(hsnap[h].after) = 3
        /\ \E g \in Handlers : hpc[g] = "rec_lock"

(***************************************************************************)
(* Concurrent GetFib handlers of the in-process service                    *)
(***************************************************************************)
\* requests of the concurrent handlers: negative, base cases, cached and uncached
\* indices, the largest valid index and one too large
ConcInputs == {0 - 1, 0, 2, 3, 5, MaxN, MaxN + 1}

InitConc == Init /\ variant = "mem"

\* a step of handler p of the in-process service after its request arrived
MemStep(p) ==
    \/ FibEntry(p) \/ FibRLock(p) \/ FibRead(p) \/ FibLock(p) \/ FibLoop(p)
    \/ Spawn(p, 400000)
    \/ Respond(p)

NextConc ==
    \/ \E p \in Procs, n \in ConcInputs : GetFibCall(p, n)
    \/ \E p \in Procs : FibEntry(p)
    \/ \E p \in Procs : FibRLock(p)
    \/ \E p \in Procs : FibRead(p)
    \/ \E p \in Procs : FibLock(p)
    \/ \E p \in Procs : FibLoop(p)
    \/ \E p \in Procs : Spawn(p, 400000)
    \/ \E p \in Procs : Respond(p)

\* the Go scheduler runs every goroutine that can run
SpecConc == InitConc /\ [][NextConc]_vars /\ \A p \in Procs : WF_vars(MemStep(p))

\* C11: with concurrent GetFib handlers of the in-process service, every call that is
\* answered for an n in 0..92 is answered OK with Fib(n); every handler that has started
\* eventually returns; the write lock and every read lock on mu is eventually released
C11_ConcurrentCompute ==
    /\ [](\A c \in CallIds :
            Answered(c) /\ resp[c].n \in 0..92 =>
                resp[c].code = "OK" /\ resp[c].x = MathFib(resp[c].n))
    /\ \A p \in Procs : (pc[p] # "idle") ~> (pc[p] = "idle")
    /\ \A p \in Procs : (mu.w = p) ~> (mu.w = 0)
    /\ \A p \in Procs : (p \in mu.r) ~> (p \notin mu.r)

\* Fib(3) missed the lookup, waited for the lock while a concurrent Fib(5) filled the
\* cache, then found its entry written: it took the lock and wrote nothing
C11_Witness ==
    \E c, e \in CallIds :
        /\ resp[c].code = "OK" /\ resp[c].n = 3 /\ resp[c].x = MathFib(3)
        /\ resp[c].path.lock = 1 /\ resp[c].path.writes = 0
        /\ resp[e].code = "OK" /\ resp[e].n = 5 /\ resp[e].x = MathFib(5)
        /\ resp[e].path.writes = 4

\* C12: in every snapshot the average of an entry, its milliseconds divided by its count,
\* is the summed duration of the recorded calls for its n divided by the count: the
\* milliseconds GetStats divides are the whole sum, nothing of it cut off
C12_ExactAverage ==
    \A h \in Handlers :
        hsnap[h].given /\ hsnap[h].total <= Len(hist) =>
            \A q \in DOMAIN hsnap[h].entries :
                hsnap[h].entries[q].ms * 1000000 =
                    SumIn(hist, hsnap[h].total, hsnap[h].entries[q].n)

\* C13: a GetStats that returns while no RecordNo has been applied returns a response
\* (it has no error return) with total_requests = 0 and no entry
C13_EmptySnapshot ==
    \A h \in Handlers :
        /\ hsnap[h].given /\ hsnap[h].applied = 0 =>
              hsnap[h].total = 0 /\ hsnap[h].entries = <<>>
        /\ hpc[h] = "build" /\ Len(hkeys[h]) = Len(hres[h]) => ENABLED GetStatsReturn(h)

\* an empty response, given while a RecordNo request was waiting for the lock
C13_Witness ==
    \E h \in Handlers :
        /\ hsnap[h].given /\ hsnap[h].applied = 0
        /\ hsnap[h].total = 0 /\ hsnap[h].entries = <<>>
        /\ SumMap(hsnap[h].after) = 1

\* C14: in every snapshot the n of the entries ascend strictly, and they are exactly the
\* n of the RecordNo calls applied when it was taken
C14_AscendingEntries ==
    \A h \in Handlers :
        hsnap[h].given =>
            /\ \A a, b \in DOMAIN hsnap[h].entries :
                 a < b => hsnap[h].entries[a].n < hsnap[h].entries[b].n
            /\ {hsnap[h].entries[q].n : q \in DOMAIN hsnap[h].entries} =
                   {hist[q].n : q \in 1..hsnap[h].applied}

\* the range over the map gave 3 before 2, the response has 2 before 3
C14_Witness ==
    \E h \in Handlers :
        /\ hsnap[h].given /\ hsnap[h].raw = <<3, 2>>
        /\ Len(hsnap[h].entries) = 2
        /\ hsnap[h].entries[1].n = 2 /\ hsnap[h].entries[2].n = 3

\* C15: a GetFib call answered with a value has started exactly one reporter goroutine,
\* which carries the call's n; a call answered InvalidArgument has started none and no
\* RecordNo request is ever sent for it
C15_OneObservation ==
    \A c \in CallIds :
        /\ rep[c].obs <= 1
        /\ resp[c].code = "OK" => rep[c].obs = 1 /\ rep[c].n = resp[c].n
        /\ resp[c].code = "InvalidArgument" => rep[c] = NoRep /\ msg[c] = NoMsg

\* one call answered with a value and reported, one rejected and not reported
C15_Witness ==
    /\ resp[1].code = "OK" /\ resp[1].n = 2 /\ rep[1].obs = 1 /\ rep[1].n = 2
    /\ rep[1].st = "done"
    /\ resp[2].code = "InvalidArgument" /\ resp[2].n = MaxN + 1 /\ rep[2] = NoRep

(***************************************************************************)
(* The Redis variant with a store that loses or garbles what it holds      *)
(***************************************************************************)
StoreInputs == {0, 1, 2, 10, MaxN}

\* strings under a key that strconv.ParseInt rejects: not a number, and 2^63
BadStrings ==
    { <<"x">>,
      <<"9", "2", "2", "3", "3", "7", "2", "0", "3", "6", "8", "5", "4", "7", "7", "5",
        "8", "0", "8">> }

\* the store holds an unparsable string under the key of n
StoreCorrupt(n, str) ==
    /\ n >= 2
    /\ ~(CacheKey(n) \in DOMAIN rdb /\ rdb[CacheKey(n)] = str)
    /\ rdb' = CachePut(rdb, CacheKey(n), str)
    /\ UNCHANGED <<variant, fibCache, mu, pc, fn, fi, fab, fcached, fres, path, resp, calls, cid, done>>
    /\ UNCHANGED telVars

InitStore == Init /\ variant = "redis"

NextStore ==
    \/ \E n \in StoreInputs : GetFibCall(1, n)
    \/ FibEntry(1)
    \/ \E out \in {"val", "nil", "err"} : FibGet(1, out)
    \/ FibCompute(1)
    \/ \E ok \in BOOLEAN : FibSet(1, ok)
    \/ Spawn(1, 400000)
    \/ Respond(1)
    \/ \E n \in StoreInputs, str \in BadStrings : StoreCorrupt(n, str)

SpecStore == InitStore /\ [][NextStore]_vars

\* C16: with the Redis store failing its GET, missing, holding an unparsable string or
\* failing its SET, a GetFib(n) with 0 <= n <= 92 is answered OK with Fib(n): for n >= 2
\* after one GET and either no iteration (a parsed hit) or all n - 1 iterations, and Fib
\* returns Fib(n) whether or not its SET succeeded
C16_StoreFailureTolerated ==
    /\ \A s \in BadStrings : ~ParseInt(s).ok
    /\ \A c \in CallIds :
         Answered(c) /\ resp[c].n \in 0..92 =>
            /\ resp[c].code = "OK" /\ resp[c].x = MathFib(resp[c].n)
            /\ resp[c].n >= 2 =>
                  /\ resp[c].path.gets = 1
                  /\ resp[c].path.iters \in {0, resp[c].n - 1}
                  /\ resp[c].path.writes > 0 => resp[c].path.iters = resp[c].n - 1
    /\ \A p \in Procs :
         pc[p] \in {"ret", "respond"} /\ fn[p] \in 0..92 => fres[p] = MathFib(fn[p])

\* Fib(92) computed in full while its SET failed and the store held an unparsable string
\* under fib:92, and computed in full again by the next call
C16_Witness ==
    /\ resp[1].code = "OK" /\ resp[1].n = MaxN /\ resp[1].x = MathFib(MaxN)
    /\ resp[1].path.iters = MaxN - 1 /\ resp[1].path.writes = 0
    /\ resp[2].code = "OK" /\ resp[2].n = MaxN /\ resp[2].x = MathFib(MaxN)
    /\ resp[2].path.again /\ resp[2].path.iters = MaxN - 1 /\ resp[2].path.writes = 0
    /\ CacheKey(MaxN) \in DOMAIN rdb /\ ~ParseInt(rdb[CacheKey(MaxN)]).ok

\* C17: no addition of any call leaves the signed 64-bit range, so an answered n in 0..92
\* carries Fib(n) itself, at most 2^63 - 1; Fib(93) would not fit, and every n above 92 is
\* answered InvalidArgument without a value
C17_NoOverflow ==
    /\ InInt64(MathFib(MaxN)) /\ ~InInt64(ExactAdd(MathFib(MaxN - 1), MathFib(MaxN)))
    /\ \A p \in Procs : ~path[p].ovf
    /\ \A c \in CallIds :
         /\ ~resp[c].path.ovf
         /\ Answered(c) /\ resp[c].n \in 0..92 =>
               /\ resp[c].x = MathFib(resp[c].n)
               /\ ~resp[c].x.neg /\ ~MagLess(MaxMag, resp[c].x.mag)
         /\ Answered(c) /\ resp[c].n > 92 =>
               resp[c].code = "InvalidArgument" /\ resp[c].x = NoVal

\* 93 rejected, then 92 computed by all its 91 additions
C17_Witness ==
    /\ resp[1].n = MaxN + 1 /\ resp[1].code = "InvalidArgument"
    /\ resp[2].n = MaxN /\ resp[2].code = "OK" /\ resp[2].path.iters = MaxN - 1
    /\ resp[2].x = IntVal(FALSE, Mag(7, 540113804, 746346429))

Backoff == <<100, 200, 400, 800>>

LiveInputs == {3}

\* one outcome of each kind: success, a transient failure, a permanent failure
LiveOutcomes == {"OK", "Unavailable", "PermissionDenied"}

NextLive ==
    \/ \E n \in LiveInputs : GetFibCall(1, n)
    \/ FibEntry(1)
    \/ FibRLock(1)
    \/ FibRead(1)
    \/ FibLock(1)
    \/ FibLoop(1)
    \/ \E out \in {"val", "nil", "err"} : FibGet(1, out)
    \/ FibCompute(1)
    \/ \E ok \in BOOLEAN : FibSet(1, ok)
    \/ Spawn(1, 400000)
    \/ Respond(1)
    \/ \E c \in CallIds : AttemptStart(c)
    \/ \E c \in CallIds, latest \in BOOLEAN : ServerRecordNo(c, latest)
    \/ \E c \in CallIds, out \in LiveOutcomes : AttemptEnd(c, out)
    \/ \E c \in CallIds : SleepDone(c)

SpecLive == Init /\ [][NextLive]_vars /\ \A c \in CallIds : WF_vars(ReporterStep(c))

\* C19: no reporter calls the delivery attempt more than MaxRetries + 1 = 4 times, and
\* every reporter that was started eventually returns
C19_ReportTerminates ==
    /\ [](\A c \in CallIds : rep[c].attempts <= MaxRetries + 1 /\ rep[c].i <= MaxRetries + 1)
    /\ \A c \in CallIds : (rep[c].st # "none") ~> (rep[c].st = "done")

\* a reporter that returned after four attempts, the last of which succeeded
C19_Witness ==
    /\ variant = "redis"
    /\ \E c \in CallIds :
         /\ rep[c].st = "done" /\ rep[c].attempts = 4 /\ rep[c].err = "OK"
         /\ rep[c].slept = <<100, 200, 400>>

\* C20: the map fibCache holds under every key k a value equal to Fib(k), its keys lie in
\* 0..92, and no step removes a key or changes the value under a key it already holds
C20_CacheSound ==
    /\ [](\A k \in DOMAIN fibCache : k \in 0..MaxN /\ fibCache[k] = MathFib(k))
    /\ [][/\ DOMAIN fibCache \subseteq DOMAIN fibCache'
          /\ \A k \in DOMAIN fibCache : fibCache'[k] = fibCache[k]]_vars

\* after Fib(92) and a second call the map holds all of 0..92
C20_Witness ==
    /\ DOMAIN fibCache = 0..MaxN
    /\ fibCache[MaxN] = IntVal(FALSE, Mag(7, 540113804, 746346429))
    /\ calls = MaxCalls /\ \A p \in Procs : pc[p] = "idle"
    /\ \E c \in CallIds : resp[c].code = "OK" /\ resp[c].n = 0 - 1

\* C21: a handler of the in-process service that missed the lookup for its n never has
\* to wait while a handler with another n is in its loop: whenever one is about to
\* compute and another is computing, the first can go on
C21_MissesComputeTogether ==
    \A p, q \in Procs :
        /\ p # q /\ fn[p] # fn[q] /\ fn[p] \in 2..MaxN /\ fn[q] \in 2..MaxN
        /\ pc[p] = "lock" /\ pc[q] = "loop"
        => ENABLED FibLock(p)

(***************************************************************************)
(* Concurrent GetFib handlers of either variant, the store answering       *)
(* truthfully                                                              *)
(***************************************************************************)
RaceInputs == {2, 3, 5}

NextRace ==
    \/ \E p \in Procs, n \in RaceInputs : GetFibCall(p, n)
    \/ \E p \in Procs : FibEntry(p)
    \/ \E p \in Procs : FibRLock(p)
    \/ \E p \in Procs : FibRead(p)
    \/ \E p \in Procs : FibLock(p)
    \/ \E p \in Procs : FibLoop(p)
    \/ \E p \in Procs, out \in {"val", "nil"} : FibGet(p, out)
    \/ \E p \in Procs : FibCompute(p)
    \/ \E p \in Procs : FibSet(p, TRUE)
    \/ \E p \in Procs : Spawn(p, 400000)
    \/ \E p \in Procs : Respond(p)

SpecRace == Init /\ [][NextRace]_vars

\* the call missed the cache: it took the exclusive lock, or it ran the whole iteration
Missed(c) ==
    IF variant = "mem" THEN resp[c].path.lock = 1
    ELSE resp[c].path.iters = resp[c].n - 1

\* the cache holds v under k
CacheHolds(k, v) ==
    IF variant = "mem" THEN k \in DOMAIN fibCache /\ fibCache[k] = v
    ELSE CacheKey(k) \in DOMAIN rdb /\ rdb[CacheKey(k)] = FormatInt(v)

\* C22: two calls for the same n that both missed the cache are both answered with
\* Fib(n) and the cache then holds Fib(n) under n; no step changes the value an entry of
\* the cache already has
C22_SameKeyRace ==
    /\ [](\A c, e \in CallIds :
            /\ c # e /\ resp[c].code = "OK" /\ resp[e].code = "OK"
            /\ resp[c].n = resp[e].n /\ Missed(c) /\ Missed(e)
            => /\ resp[c].x = MathFib(resp[c].n) /\ resp[e].x = MathFib(resp[c].n)
               /\ CacheHolds(resp[c].n, MathFib(resp[c].n)))
    /\ [][/\ \A k \in DOMAIN fibCache : k \in DOMAIN fibCache' /\ fibCache'[k] = fibCache[k]
          /\ \A k \in DOMAIN rdb : k \in DOMAIN rdb' /\ rdb'[k] = rdb[k]]_vars

\* in-process: both calls for 5 took the exclusive lock, the second wrote nothing
C22_WitnessMem ==
    /\ variant = "mem"
    /\ resp[1].code = "OK" /\ resp[2].code = "OK" /\ resp[1].n = 5 /\ resp[2].n = 5
    /\ resp[1].path.lock = 1 /\ resp[2].path.lock = 1
    /\ {resp[1].path.writes, resp[2].path.writes} = {0, 4}

\* both variants' races: with Redis both calls for 5 missed, iterated and wrote fib:5
C22_Witness ==
    /\ variant = "redis"
    /\ resp[1].code = "OK" /\ resp[2].code = "OK" /\ resp[1].n = 5 /\ resp[2].n = 5
    /\ resp[1].path.iters = 4 /\ resp[2].path.iters = 4
    /\ resp[1].path.writes = 1 /\ resp[2].path.writes = 1
    /\ rdb[CacheKey(5)] = <<"5">>

\* C23: the keys of fibCache are always 0..m for some m >= 1; an iteration of Fib's loop
\* finds both lower entries present; and a call for n in 2..92 that took the exclusive
\* lock leaves, when it is answered, an entry for every i in 0..n
C23_ContiguousKeys ==
    /\ \E m \in 1..MaxN : DOMAIN fibCache = 0..m
    /\ \A p \in Procs :
         pc[p] = "loop" /\ LoopCond(fi[p], fn[p]) =>
             fi[p] - 1 \in DOMAIN fibCache /\ fi[p] - 2 \in DOMAIN fibCache
    /\ \A p \in Procs :
         pc[p] \in {"ret", "respond"} /\ fn[p] \in 2..MaxN => 0..fn[p] \subseteq DOMAIN fibCache
    /\ \A c \in CallIds :
         resp[c].code = "OK" /\ resp[c].n \in 2..MaxN => 0..resp[c].n \subseteq DOMAIN fibCache

\* Fib(5) on the initial cache wrote 2, 3, 4 and 5
C23_Witness ==
    /\ DOMAIN fibCache = 0..5
    /\ \E c \in CallIds :
         /\ resp[c].code = "OK" /\ resp[c].n = 5
         /\ resp[c].path.lock = 1 /\ resp[c].path.writes = 4 /\ resp[c].path.iters = 4

\* C24: a response of GetStats reflects exactly the first j RecordNo calls in the order
\* they returned, where j is at least the number that had returned when GetStats was
\* called and at most the number that had returned when it answered, so it reflects every
\* call that returned before it was invoked and none that started after it returned; and
\* a response is never below a response given earlier, in total_requests or in the count
\* of any n
C24_SnapshotWindow ==
    /\ [](\A h \in Handlers :
            hsnap[h].given =>
                /\ hsnap[h].before <= hsnap[h].total
                /\ hsnap[h].total <= hsnap[h].applied
                /\ hsnap[h].applied <= Len(hist)
                /\ \A k \in StatNs :
                     /\ SnapCount(hsnap[h].entries, k) = CountIn(hist, hsnap[h].total, k)
                     /\ SnapCount(hsnap[h].entries, k) <= CountGet(hsnap[h].after, k))
    /\ [][\A h, g \in Handlers :
            ~hsnap[h].given /\ hsnap'[h].given /\ hsnap[g].given =>
                /\ hsnap[g].total <= hsnap'[h].total
                /\ \A k \in StatNs :
                     SnapCount(hsnap[g].entries, k) <= SnapCount(hsnap'[h].entries, k)]_vars

\* two responses are held, the earlier one taken after one call and the later one after
\* three, two of which it was not asked to wait for
C24_Witness ==
    \E h, g \in Handlers :
        /\ hsnap[g].given /\ hsnap[g].total = 1 /\ hsnap[g].applied = 1
        /\ hsnap[h].given /\ hsnap[h].total = 3 /\ hsnap[h].before = 3
        /\ \E k \in StatNs : SnapCount(hsnap[g].entries, k) = 1 /\ SnapCount(hsnap[h].entries, k) = 2

\* a RecordNo handler is between its Lock and its return
InRecordNo(h) == hpc[h] \in {"rc_load", "rc_store", "tr_load", "tr_store", "tt_load", "tt_store"}

\* C25 as stated: in every state RequestCount and TotalTime have the same keys and every
\* count is at least 1
C25_SameKeysAlways ==
    /\ DOMAIN stats.RequestCount = DOMAIN stats.TotalTime
    /\ \A k \in DOMAIN stats.RequestCount : stats.RequestCount[k] >= 1

\* C25: every key of RequestCount has a count of at least 1 and every key of TotalTime is
\* a key of RequestCount, in every state; the two key sets are equal whenever no RecordNo
\* is between its first and its last update, in particular whenever GetStats holds the
\* lock; so the count GetStats divides by is never 0
C25_CountsPositive ==
    /\ \A k \in DOMAIN stats.RequestCount : stats.RequestCount[k] >= 1
    /\ DOMAIN stats.TotalTime \subseteq DOMAIN stats.RequestCount
    /\ (\A h \in Handlers : ~InRecordNo(h)) =>
           DOMAIN stats.RequestCount = DOMAIN stats.TotalTime
    /\ \A h \in Handlers :
         hpc[h] \in {"sort", "build"} =>
             /\ DOMAIN stats.RequestCount = DOMAIN stats.TotalTime
             /\ \A q \in DOMAIN hkeys[h] :
                  hkeys[h][q] \in DOMAIN stats.RequestCount /\ stats.RequestCount[hkeys[h][q]] >= 1
             /\ \A q \in DOMAIN hres[h] : hres[h][q].count >= 1

\* GetStats has divided for one of two keys and is about to divide for the other
C25_Witness ==
    \E h \in Handlers :
        /\ hpc[h] = "build" /\ Len(hkeys[h]) = 2 /\ Len(hres[h]) = 1
        /\ DOMAIN stats.TotalTime = {2, 3}

\* a step of a GetStats handler
GetStatsStep(h) ==
    \/ GetStatsEnter(h)
    \/ \E order \in KeyOrders(stats.RequestCount) : GetStatsLock(h, order)
    \/ GetStatsSort(h)
    \/ GetStatsBuild(h)
    \/ GetStatsReturn(h)

\* C26: when RecordNo(n, d) has made its updates and is about to return, the total is 1
\* above, the count of n 1 above and the duration of n d above what they were when it
\* took the lock (the totals of the calls that returned before it), and the count and
\* the duration of every other n' are what they were; no step of GetStats changes the
\* counters or the maps
C26_RecordNoFrame ==
    /\ [](/\ smu = 0 =>
               /\ stats.TotalRequests = Len(hist)
               /\ \A k \in StatNs :
                    /\ CountGet(stats.RequestCount, k) = CountIn(hist, Len(hist), k)
                    /\ CountGet(stats.TotalTime, k) = SumIn(hist, Len(hist), k)
          /\ \A h \in Handlers :
               hpc[h] = "rec_ret" =>
                   /\ stats.TotalRequests = Len(hist) + 1
                   /\ \A k \in StatNs :
                        /\ CountGet(stats.RequestCount, k) =
                               CountIn(hist, Len(hist), k) + (IF k = hreq[h].n THEN 1 ELSE 0)
                        /\ CountGet(stats.TotalTime, k) =
                               SumIn(hist, Len(hist), k) + (IF k = hreq[h].n THEN hreq[h].d ELSE 0)
                        /\ k # hreq[h].n => (k \in DOMAIN stats.RequestCount <=>
                                                CountIn(hist, Len(hist), k) > 0))
    /\ [][(\E h \in Handlers : GetStatsStep(h)) => stats' = stats]_vars

\* a RecordNo for 3 has made its updates after calls for 2 and for 3 returned, while the
\* other handler is inside no call
C26_Witness ==
    \E h \in Handlers :
        /\ hpc[h] = "rec_ret" /\ hreq[h].n = 3
        /\ Len(hist) = 2 /\ CountIn(hist, 2, 2) = 1 /\ CountIn(hist, 2, 3) = 1
        /\ stats.RequestCount[3] = 2 /\ stats.RequestCount[2] = 1

\* C27: a reporter whose attempt succeeded has returned, with no error; it made between
\* 1 and MaxRetries + 1 attempts, every earlier one failed transiently, it waited once
\* after each of those and not after the success (j waits for j + 1 attempts), and it
\* takes no further step
C27_StopsAtFirstSuccess ==
    variant = "redis" =>
        \A c \in CallIds :
            rep[c].err = "OK" =>
                /\ rep[c].st = "done"
                /\ rep[c].attempts \in 1..MaxRetries + 1
                /\ rep[c].permAt = 0
                /\ Len(rep[c].slept) = rep[c].attempts - 1
                /\ rep[c].i = rep[c].attempts - 1
                /\ ~ENABLED ReporterStep(c)

\* one reporter succeeded at its first attempt, the other at its third after two
\* transient failures
C27_Witness ==
    /\ variant = "redis"
    /\ \E c, e \in CallIds :
         /\ rep[c].st = "done" /\ rep[c].err = "OK" /\ rep[c].attempts = 1 /\ rep[c].slept = <<>>
         /\ rep[e].st = "done" /\ rep[e].err = "OK" /\ rep[e].attempts = 3
         /\ rep[e].slept = <<100, 200>>

(***************************************************************************)
(* The gateway under concurrent /fib requests                              *)
(***************************************************************************)
\* values of the query parameter n: absent, not numerals, numerals with a sign, the ends
\* of the service's range, negative ones, one above int32, one above uint32 and one
\* above int64
GwQueries ==
    { <<>>, <<"a", "b", "c">>, <<"1", "x">>, <<"-">>, <<"3", ".", "5">>,
      <<"0">>, <<"5">>, <<"-", "0">>, <<"+", "3">>, <<"9", "2">>, <<"9", "3">>,
      <<"-", "1">>, <<"-", "9", "3">>,
      <<"2", "1", "4", "7", "4", "8", "3", "6", "4", "8">>,
      <<"4", "2", "9", "4", "9", "6", "7", "3", "0", "1">>,
      <<"9", "2", "2", "3", "3", "7", "2", "0", "3", "6", "8", "5", "4", "7", "7", "5",
        "8", "0", "8">> }

GwOutcomes == {"served", "Unavailable", "DeadlineExceeded"}

NextGateway ==
    \/ \E g \in Gateways, q \in GwQueries : GwRequest(g, q)
    \/ \E g \in Gateways : GwParse(g)
    \/ \E g \in Gateways, out \in GwOutcomes : GwReply(g, out)

SpecGateway == Init /\ [][NextGateway]_vars

\* the queries that are no decimal integer, and those that are a negative one
GwNotIntegers == { <<>>, <<"a", "b", "c">>, <<"1", "x">>, <<"-">>, <<"3", ".", "5">> }
GwNegatives == { <<"-", "1">>, <<"-", "9", "3">> }

\* C28: a FibHandler never writes more than one body and has written exactly one, a
\* value or an error, when it is finished; it sends at most one GetFib request, and none
\* unless n is a decimal integer that is not negative: for a non-integer or a negative n
\* it finishes with an error body and no request sent; a value body is only written
\* after a request was sent
C28_OneBodyGatedRpc ==
    \A g \in Gateways :
        /\ Len(gw[g].bodies) <= 1 /\ Len(gw[g].sent) <= 1
        /\ gw[g].pc = "done" <=> Len(gw[g].bodies) = 1
        /\ \A j \in DOMAIN gw[g].bodies : gw[g].bodies[j].kind \in {"value", "error"}
        /\ gw[g].nStr \in GwNotIntegers \cup GwNegatives => gw[g].sent = <<>>
        /\ gw[g].nStr \in GwNotIntegers \cup GwNegatives /\ gw[g].pc = "done" =>
               gw[g].bodies[1].kind = "error"
        /\ \A j \in DOMAIN gw[g].bodies :
               gw[g].bodies[j].kind = "value" => Len(gw[g].sent) = 1

\* one handler answered n=-1 with an error and no request, the other n=5 with the value 5
\* after one request
C28_Witness ==
    \E g, f \in Gateways :
        /\ gw[g].pc = "done" /\ gw[g].nStr = <<"-", "1">> /\ gw[g].sent = <<>>
        /\ gw[g].bodies = <<ErrorBody("n must be non-negative")>>
        /\ gw[f].pc = "done" /\ gw[f].nStr = <<"5">> /\ gw[f].sent = <<5>>
        /\ gw[f].bodies = <<ValueBody(Small(5))>>

====
